---- MODULE Spec2Model ----
(***************************************************************************)
(* IBC proof verification of the penumbra ibc component                   *)
(* (crates/core/component/ibc/src/component/proof_verification.rs).       *)
(*                                                                         *)
(* The module models the block-delay calculator (with the f64 arithmetic   *)
(* the code uses), the trust resolver get_trusted_client_and_consensus_    *)
(* state, and the eight proof verifiers, as calls that read a chain state  *)
(* one await point at a time.                                              *)
(***************************************************************************)
EXTENDS Integers, Sequences, FiniteSets, TLC

(***************************************************************************)
(* Unsigned integers wider than TLC's machine integers: a natural number   *)
(* is a sequence of limbs of LimbBits bits, least significant first,       *)
(* without leading zero limbs (the empty sequence is 0).  u64 and the      *)
(* significand of an f64 are represented this way.                         *)
(***************************************************************************)
LimbBits == 15

LimbBase == 2 ^ LimbBits

Max(a, b) == IF a >= b THEN a ELSE b

Min(a, b) == IF a <= b THEN a ELSE b

RECURSIVE NatToBig(_)
NatToBig(n) ==
    IF n = 0 THEN <<>> ELSE <<n % LimbBase>> \o NatToBig(n \div LimbBase)

\* the machine integer of a number below 2^31
RECURSIVE BigToNat(_)
BigToNat(b) == IF b = <<>> THEN 0 ELSE b[1] + LimbBase * BigToNat(Tail(b))

\* b without its leading (most significant) zero limbs
Trim(b) ==
    LET used == {i \in 1..Len(b) : b[i] # 0}
    IN  IF used = {} THEN <<>>
        ELSE SubSeq(b, 1, CHOOSE i \in used : \A j \in used : j <= i)

LimbAt(b, i) == IF i >= 1 /\ i <= Len(b) THEN b[i] ELSE 0

\* a + b
AddBig(a, b) ==
    LET n == Max(Len(a), Len(b)) + 1
        carry[i \in 1..n] ==
            IF i = 1 THEN 0
            ELSE (LimbAt(a, i - 1) + LimbAt(b, i - 1) + carry[i - 1]) \div LimbBase
    IN  Trim([i \in 1..n |-> (LimbAt(a, i) + LimbAt(b, i) + carry[i]) % LimbBase])

\* a - b for a >= b
SubBig(a, b) ==
    LET n == Len(a)
        borrow[i \in 1..(n + 1)] ==
            IF i = 1 THEN 0
            ELSE IF LimbAt(a, i - 1) - LimbAt(b, i - 1) - borrow[i - 1] < 0
                 THEN 1 ELSE 0
    IN  Trim([i \in 1..n |-> (LimbAt(a, i) - LimbAt(b, i) - borrow[i]) % LimbBase])

\* a < b
LessBig(a, b) ==
    IF Len(a) # Len(b) THEN Len(a) < Len(b)
    ELSE \E i \in 1..Len(a) :
             /\ a[i] < b[i]
             /\ \A j \in (i + 1)..Len(a) : a[j] = b[j]

\* a * t for a machine integer 0 <= t < LimbBase
MulSmall(a, t) ==
    LET n == Len(a) + 1
        carry[i \in 1..n] ==
            IF i = 1 THEN 0
            ELSE (LimbAt(a, i - 1) * t + carry[i - 1]) \div LimbBase
    IN  Trim([i \in 1..n |-> (LimbAt(a, i) * t + carry[i]) % LimbBase])

\* a * LimbBase^k
ShiftLimbs(a, k) == IF a = <<>> \/ k <= 0 THEN a ELSE [i \in 1..k |-> 0] \o a

\* a * b, limb by limb of b
MulBig(a, b) ==
    LET RECURSIVE MulFrom(_, _)
        MulFrom(i, acc) ==
            IF i > Len(b) \/ acc = <<-1>> THEN acc
            ELSE MulFrom(i + 1, AddBig(acc, ShiftLimbs(MulSmall(a, b[i]), i - 1)))
    IN  MulFrom(1, <<>>)

\* the number of bits of a machine integer 0 <= x < LimbBase
BitLenInt(x) == CHOOSE k \in 0..LimbBits : x < 2 ^ k /\ (k = 0 \/ x >= 2 ^ (k - 1))

\* the number of bits of a
BitLen(a) ==
    IF a = <<>> THEN 0 ELSE LimbBits * (Len(a) - 1) + BitLenInt(a[Len(a)])

\* bit i of a, the least significant bit being bit 1
BitAt(a, i) ==
    (LimbAt(a, (i - 1) \div LimbBits + 1) \div 2 ^ ((i - 1) % LimbBits)) % 2

\* a * 2^k
ShiftL(a, k) ==
    IF k <= 0 THEN a
    ELSE ShiftLimbs(MulSmall(a, 2 ^ (k % LimbBits)), k \div LimbBits)

\* floor(a / 2^k)
ShiftR(a, k) ==
    IF k <= 0 THEN a
    ELSE LET w == k \div LimbBits
             s == k % LimbBits
         IN  IF w >= Len(a) THEN <<>>
             ELSE Trim([i \in 1..(Len(a) - w) |->
                         LimbAt(a, w + i) \div 2 ^ s
                         + (LimbAt(a, w + i + 1) % 2 ^ s) * 2 ^ (LimbBits - s)])

\* some bit among the k lowest bits of a is set
AnyLow(a, k) == \E i \in 1..Min(k, BitLen(a)) : BitAt(a, i) = 1

\* the largest t < LimbBase with t * b <= r, for b # 0 and r < b * LimbBase
QuotientLimb(r, b) ==
    LET RECURSIVE Search(_, _)
        Search(k, t) ==
            IF k < 0 \/ t < 0 THEN t
            ELSE Search(k - 1,
                        IF LessBig(r, MulSmall(b, t + 2 ^ k)) THEN t ELSE t + 2 ^ k)
    IN  Search(LimbBits - 1, 0)

\* long division of a by b # 0, most significant limb first: [q, r]
DivMod(a, b) ==
    LET RECURSIVE DivFrom(_, _)
        DivFrom(i, s) ==
            IF i = 0 \/ s.q = <<-1>> THEN s
            ELSE LET r2 == Trim(<<a[i]>> \o s.r)
                     t  == QuotientLimb(r2, b)
                 IN  DivFrom(i - 1, [q |-> Trim(<<t>> \o s.q),
                                     r |-> SubBig(r2, MulSmall(b, t))])
    IN  DivFrom(Len(a), [q |-> <<>>, r |-> <<>>])

(***************************************************************************)
(* f64 arithmetic as line 75 uses it.  A finite non-negative f64 is        *)
(* [m, e], the value m * 2^e with a significand m of at most               *)
(* SignificandBits bits; every operation rounds its exact result to the    *)
(* nearest such value, ties to even.  The exponent range of an f64 is not  *)
(* modelled: no Duration quotient leaves it.                               *)
(***************************************************************************)
SignificandBits == 53

U64Bits == 64

NANOS_PER_SEC == 1000000000

\* the f64 nearest to (n + f) * 2^e, where 0 < f < 1 if sticky and f = 0 if not
RoundBits(n, sticky, e) ==
    IF BitLen(n) <= SignificandBits THEN [m |-> n, e |-> e]
    ELSE LET drop  == BitLen(n) - SignificandBits
             kept  == ShiftR(n, drop)
             guard == BitAt(n, drop)
             rest  == sticky \/ AnyLow(n, drop - 1)
             up    == guard = 1 /\ (rest \/ BitAt(kept, 1) = 1)
             m1    == IF up THEN AddBig(kept, <<1>>) ELSE kept
         IN  IF BitLen(m1) > SignificandBits
             THEN [m |-> ShiftR(m1, 1), e |-> e + drop + 1]
             ELSE [m |-> m1, e |-> e + drop]

\* `n as f64` for an unsigned integer n
F64FromBig(n) == RoundBits(n, FALSE, 0)

\* x / y in f64, y # 0
F64Div(x, y) ==
    IF x.m = <<>> THEN [m |-> <<>>, e |-> 0]
    ELSE LET k  == Max(0, SignificandBits + 2 + BitLen(y.m) - BitLen(x.m))
             qr == DivMod(ShiftL(x.m, k), y.m)
         IN  RoundBits(qr.q, qr.r # <<>>, x.e - y.e - k)

\* x + y in f64
F64Add(x, y) ==
    LET e == Min(x.e, y.e)
    IN  RoundBits(AddBig(ShiftL(x.m, x.e - e), ShiftL(y.m, y.e - e)), FALSE, e)

\* FloatCore::ceil(x), as an unsigned integer of any width
F64Ceil(x) ==
    IF x.e >= 0 THEN ShiftL(x.m, x.e)
    ELSE IF AnyLow(x.m, 0 - x.e)
         THEN AddBig(ShiftR(x.m, 0 - x.e), <<1>>)
         ELSE ShiftR(x.m, 0 - x.e)

\* `v as u64` of a non-negative integral f64: the cast saturates at u64::MAX
AsU64(n) ==
    IF BitLen(n) > U64Bits THEN SubBig(ShiftL(<<1>>, U64Bits), <<1>>) ELSE n

(***************************************************************************)
(* core::time::Duration: [secs, nanos] with nanos < NANOS_PER_SEC.         *)
(***************************************************************************)
Dur(s, n) == [secs |-> s, nanos |-> n]

is_zero(d) == d.secs = 0 /\ d.nanos = 0

\* Duration::as_secs_f64: (secs as f64) + (nanos as f64) / (NANOS_PER_SEC as f64)
as_secs_f64(d) ==
    F64Add(F64FromBig(NatToBig(d.secs)),
           F64Div(F64FromBig(NatToBig(d.nanos)),
                  F64FromBig(NatToBig(NANOS_PER_SEC))))

\* the duration in nanoseconds, exactly
DurNanos(d) ==
    AddBig(MulBig(NatToBig(d.secs), NatToBig(NANOS_PER_SEC)), NatToBig(d.nanos))

\* calculate_block_delay: the block count as a u64
calculate_block_delay(delay_period_time, max_expected_time_per_block) ==
    IF is_zero(max_expected_time_per_block) THEN <<>>
    ELSE AsU64(F64Ceil(F64Div(as_secs_f64(delay_period_time),
                              as_secs_f64(max_expected_time_per_block))))

\* ceil(d / m) in exact integer arithmetic, m # 0
ExactCeilDiv(d, m) ==
    LET qr == DivMod(DurNanos(d), DurNanos(m))
    IN  IF qr.r = <<>> THEN qr.q ELSE AddBig(qr.q, <<1>>)

(***************************************************************************)
(* Heights, timestamps and the light-client types the verifiers read.      *)
(***************************************************************************)
\* a field that holds nothing yet
None == "None"

\* Option and Result values: <<>> is None (or Err), <<v>> is Some(v) (or Ok(v))
Absent == <<>>

Some(v) == <<v>>

\* ibc_types2::core::client::Height
Height(rn, rh) == [revision_number |-> rn, revision_height |-> rh]

\* Ord of Height: by revision number, then by revision height
HeightLT(a, b) ==
    \/ a.revision_number < b.revision_number
    \/ /\ a.revision_number = b.revision_number
       /\ a.revision_height < b.revision_height

\* Height::add
HeightAdd(h, delta) == Height(h.revision_number, h.revision_height + delta)

\* Height::new(revision_number, revision_height)?: a zero height is refused
HeightNew(rn, rh) == IF rh = 0 THEN Absent ELSE Some(Height(rn, rh))

\* TendermintClientState: frozen_height is an Option<Height>
ClientState(frozen_height, latest_height, proof_specs) ==
    [frozen_height |-> frozen_height,
     latest_height |-> latest_height,
     proof_specs   |-> proof_specs]

\* ClientState::is_frozen
is_frozen(client_state) == client_state.frozen_height # Absent

\* ClientState::verify_height: the height must not exceed the latest height
verify_height(client_state, height) ==
    IF HeightLT(client_state.latest_height, height) THEN "InvalidHeight" ELSE "Ok"

\* ClientState::verify_delay_passed; timestamps are whole seconds
verify_delay_passed(current_time, current_height, processed_time, processed_height, delay_period_time, delay_period_blocks) ==
    LET earliest_secs   == processed_time + delay_period_time.secs
        earliest_height == HeightAdd(processed_height, delay_period_blocks)
    IN  IF \/ current_time < earliest_secs
           \/ current_time = earliest_secs /\ delay_period_time.nanos > 0
        THEN "DelayNotElapsed"
        ELSE IF HeightLT(current_height, earliest_height)
        THEN "DelayNotElapsed"
        ELSE "Ok"

(***************************************************************************)
(* Paths, values and the proof oracle.  A MerkleProof is modelled by the   *)
(* statement it proves: membership of a value, or absence, at a merkle     *)
(* path under a root, for a set of proof specs.                            *)
(***************************************************************************)
\* proof bytes that do not decode to a MerkleProof
Malformed == [kind |-> "malformed"]

MerkleProof(kind, proof_specs, root, merkle_path, value) ==
    [kind |-> kind, proof_specs |-> proof_specs, root |-> root,
     merkle_path |-> merkle_path, value |-> value]

\* MerkleProof::try_from(bytes): Ok(proof) or Err
try_into_proof(bytes) == IF bytes.kind = "malformed" THEN Absent ELSE Some(bytes)

\* MerklePrefix::apply(vec![path.to_string()])
apply_prefix(prefix, path) == <<prefix, path>>

\* MerkleProof::verify_membership(specs, root, merkle_path, value, 0)
verify_membership(proof, proof_specs, root, merkle_path, value) ==
    /\ proof.kind = "exist"
    /\ proof.proof_specs = proof_specs
    /\ proof.root = root
    /\ proof.merkle_path = merkle_path
    /\ proof.value = value

\* MerkleProof::verify_non_membership(specs, root, merkle_path)
verify_non_membership(proof, proof_specs, root, merkle_path) ==
    /\ proof.kind = "nonexist"
    /\ proof.proof_specs = proof_specs
    /\ proof.root = root
    /\ proof.merkle_path = merkle_path

ChannelEndPath(port_id, channel_id) == <<"channelEnds", port_id, channel_id>>

CommitmentPath(port_id, channel_id, sequence) ==
    <<"commitments", port_id, channel_id, sequence>>

AckPath(port_id, channel_id, sequence) == <<"acks", port_id, channel_id, sequence>>

ReceiptPath(port_id, channel_id, sequence) ==
    <<"receipts", port_id, channel_id, sequence>>

SeqRecvPath(port_id, channel_id) == <<"nextSequenceRecv", port_id, channel_id>>

\* Sha256::digest, as a constructor: distinct inputs give distinct digests
Sha256(bytes) == <<"sha256", bytes>>

\* u64::to_be_bytes
to_be_bytes(n) == <<"be64", n>>

\* commit_packet
commit_packet(packet) ==
    Sha256(<<to_be_bytes(packet.timeout_timestamp_on_b),
             to_be_bytes(packet.timeout_height_on_b.revision_number),
             to_be_bytes(packet.timeout_height_on_b.revision_height),
             Sha256(packet.data)>>)

\* commit_acknowledgement
commit_acknowledgement(ack_data) == Sha256(ack_data)

\* prost encoding of a u64 (a varint)
encode_u64(n) == <<"varint", n>>

\* protobuf encoding of a message: fields at their default (0) are left out
encode_fields(tag, fields) ==
    <<tag>> \o SelectSeq(fields, LAMBDA f : f[2] # 0)

\* ChannelEnd::encode_vec
encode_channel(channel) ==
    encode_fields("ChannelEnd",
                  <<(<<1, channel.state>>), (<<2, channel.ordering>>)>>)

\* ConnectionEnd::encode_vec
encode_connection(connection_end) ==
    encode_fields("ConnectionEnd",
                  <<(<<1, connection_end.state>>), (<<2, connection_end.delay>>)>>)

\* TendermintClientState::encode_to_vec
encode_client_state(client_state) ==
    encode_fields("ClientState",
                  <<(<<1, client_state.chain>>), (<<2, client_state.height>>)>>)

\* TendermintConsensusState::encode_to_vec
encode_consensus_state(consensus_state) ==
    encode_fields("ConsensusState",
                  <<(<<1, consensus_state.timestamp>>),
                    (<<2, consensus_state.next_validators>>)>>)

\* what a verifier returns, with the oracle queries it made on the way
Outcome(result, oracle) == [result |-> result, oracle |-> oracle]

Reject(error) == Outcome(error, <<>>)

OracleQuery(check, proof_specs, merkle_path, root, value, proof) ==
    [check |-> check, proof_specs |-> proof_specs, merkle_path |-> merkle_path,
     root |-> root, value |-> value, proof |-> proof]

\* verify_merkle_proof that drops the oracle's answer
verify_merkle_proof_unchecked(proof_specs, prefix, proof, root, path, value) ==
    Outcome("Ok",
            <<OracleQuery("membership", proof_specs, apply_prefix(prefix, path),
                          root, value, proof)>>)

\* verify_merkle_proof
verify_merkle_proof(proof_specs, prefix, proof, root, path, value) ==
    LET merkle_path == apply_prefix(prefix, path)
    IN  Outcome(IF verify_membership(proof, proof_specs, root, merkle_path, value)
                THEN "Ok" ELSE "ProofVerificationFailed",
                <<OracleQuery("membership", proof_specs, merkle_path, root, value,
                              proof)>>)

\* verify_merkle_absence_proof
verify_merkle_absence_proof(proof_specs, prefix, proof, root, path) ==
    LET merkle_path == apply_prefix(prefix, path)
    IN  Outcome(IF verify_non_membership(proof, proof_specs, root, merkle_path)
                THEN "Ok" ELSE "ProofVerificationFailed",
                <<OracleQuery("non_membership", proof_specs, merkle_path, root,
                              Absent, proof)>>)

\* verify_connection_state without the height check
verify_connection_state_no_height(client_state, height, prefix, proof, root, conn_path, expected_connection_end) ==
    verify_merkle_proof(client_state.proof_specs, prefix, proof, root, conn_path,
                        encode_connection(expected_connection_end))

\* verify_connection_state
verify_connection_state(client_state, height, prefix, proof, root, conn_path, expected_connection_end) ==
    IF verify_height(client_state, height) # "Ok"
    THEN Reject(verify_height(client_state, height))
    ELSE verify_merkle_proof(client_state.proof_specs, prefix, proof, root,
                             conn_path, encode_connection(expected_connection_end))

\* verify_client_full_state
verify_client_full_state(client_state, height, prefix, proof, root, client_state_path, expected_client_state) ==
    IF verify_height(client_state, height) # "Ok"
    THEN Reject(verify_height(client_state, height))
    ELSE verify_merkle_proof(client_state.proof_specs, prefix, proof, root,
                             client_state_path,
                             encode_client_state(expected_client_state))

\* verify_client_consensus_state
verify_client_consensus_state(client_state, height, prefix, proof, root, client_cons_state_path, expected_consenus_state) ==
    IF verify_height(client_state, height) # "Ok"
    THEN Reject(verify_height(client_state, height))
    ELSE verify_merkle_proof(client_state.proof_specs, prefix, proof, root,
                             client_cons_state_path,
                             encode_consensus_state(expected_consenus_state))

(***************************************************************************)
(* The chain state the verifiers read (StateReadExt), and the calls.       *)
(***************************************************************************)
VARIABLES
    client_states,          \* get_client_state: ClientId -> Result<ClientState>
    consensus_states,       \* get_verified_consensus_state: (ClientId, Height) -> Result<ConsensusState>
    client_update_height,   \* get_client_update_height: (ClientId, Height) -> Result<Height>
    client_update_time,     \* get_client_update_time: (ClientId, Height) -> Result<seconds>
    block_height,           \* get_block_height
    block_timestamp,        \* get_block_timestamp, in seconds
    calls,                  \* the verifier calls, by caller
    block_delay             \* a call of calculate_block_delay

chain == <<client_states, consensus_states, client_update_height,
           client_update_time, block_height, block_timestamp>>

vars == <<client_states, consensus_states, client_update_height,
          client_update_time, block_height, block_timestamp, calls, block_delay>>

\* the largest block height the model lets the chain reach
MaxBlockHeight == 16

\* the seconds between two blocks of the model
BlockSeconds == 30

CallIds == {1, 2}

\* the callers of the sequential specification
SeqCallIds == {1}

ClientIds == {"07-tendermint-0", "07-tendermint-1"}

ProofHeights == {Height(0, 1), Height(0, 2), Height(0, 3)}

StoreKeys == ClientIds \X ProofHeights

ProofSpecs == {"iavl", "jmt"}

Roots == {"root1", "root2"}

DelayPeriods == {Dur(0, 0), Dur(61, 0), Dur(100, 0)}

Prefix == "ibc"

ChannelEnds == {[state |-> 3, ordering |-> 1], [state |-> 3, ordering |-> 0]}

ConnectionEnds == {[state |-> 3, delay |-> 0], [state |-> 2, delay |-> 0]}

ExpectedClientStates == {[chain |-> 1, height |-> 7], [chain |-> 1, height |-> 0]}

ExpectedConsensusStates ==
    {[timestamp |-> 5, next_validators |-> 1], [timestamp |-> 0, next_validators |-> 1]}

Packets ==
    {[port_on_a |-> "transfer", chan_on_a |-> "channel-7",
      port_on_b |-> "transfer", chan_on_b |-> "channel-0", sequence |-> 1,
      timeout_height_on_b |-> Height(0, 100), timeout_timestamp_on_b |-> 0,
      data |-> "data"]}

Acknowledgements == {<<"ack">>}

PacketKinds == {"recv", "ack", "timeout", "timeout_absence"}

PureKinds == {"connection", "client_state", "client_consensus_state"}

\* a chain parameter of 30 s in place of the code's 20 s
max_time_per_block_30s == Dur(30, 0)

\* NOTE: hardcoded for now, should probably be a chain parameter.
max_time_per_block == Dur(20, 0)

\* calculate_block_delay(&delay_period_time, &max_time_per_block), as a u64
delay_period_blocks ==
    [delay_period_time \in DelayPeriods |->
        calculate_block_delay(delay_period_time, max_time_per_block)]

\* a binding that holds no value yet: a struct, and a u64 (never negative)
NotBound == [kind |-> None]

IdleCall ==
    [pc |-> "idle", kind |-> None, connection |-> NotBound,
     proof_height |-> NotBound, msg |-> NotBound,
     trusted_client_state |-> NotBound, trusted_consensus_state |-> NotBound,
     current_timestamp |-> -1, current_height |-> -1,
     processed_height |-> NotBound, processed_time |-> -1,
     reads |-> <<>>, oracle |-> <<>>, trusted |-> None, result |-> None]

NewCall(kind, connection, proof_height, msg) ==
    [IdleCall EXCEPT !.pc = "get_client_state", !.kind = kind,
                     !.connection = connection, !.proof_height = proof_height,
                     !.msg = msg]

\* the call has issued the state read `getter`
Read(call, getter) == [call EXCEPT !.reads = Append(@, getter)]

\* the call returns an error from inside get_trusted_client_and_consensus_state
FailTrusted(call, error) ==
    [call EXCEPT !.pc = "done", !.trusted = error, !.result = error]

\* the call returns what its verifier returns
Finish(call, outcome) ==
    [call EXCEPT !.pc = "done", !.result = outcome.result,
                 !.oracle = @ \o outcome.oracle]

\* the proofs a message may carry for a claim: the proof of the claim under
\* each root, and proofs of another statement
ProofChoices(check, merkle_path, value, other_value) ==
    LET other_check == IF check = "exist" THEN "nonexist" ELSE "exist"
    IN  {MerkleProof(check, "iavl", "root1", merkle_path, value),
         MerkleProof(check, "iavl", "root2", merkle_path, value),
         MerkleProof(check, "jmt", "root1", merkle_path, value),
         MerkleProof(check, "iavl", "root1", apply_prefix(Prefix, <<"other">>), value),
         MerkleProof("exist", "iavl", "root1", merkle_path, other_value),
         MerkleProof(other_check, "iavl", "root1", merkle_path,
                     IF other_check = "exist" THEN other_value ELSE Absent)}

(***************************************************************************)
(* The packet verifiers, from the return of                                *)
(* get_trusted_client_and_consensus_state on.                              *)
(***************************************************************************)
\* verify_packet_recv_proof with the conversion error swallowed
verify_packet_recv_proof_lenient(connection, msg, trusted_client_state, trusted_consensus_state) ==
    LET commitment_path  == CommitmentPath(msg.packet.port_on_b,
                                           msg.packet.chan_on_b,
                                           msg.packet.sequence)
        commitment_bytes == commit_packet(msg.packet)
        proof            == try_into_proof(msg.proof)
    IN  IF proof = Absent THEN Outcome("Ok", <<>>)
        ELSE verify_merkle_proof(trusted_client_state.proof_specs,
                                 connection.prefix, proof[1],
                                 trusted_consensus_state.root,
                                 commitment_path, commitment_bytes)

\* verify_packet_recv_proof, lines 239-257
verify_packet_recv_proof(connection, msg, trusted_client_state, trusted_consensus_state) ==
    LET commitment_path  == CommitmentPath(msg.packet.port_on_b,
                                           msg.packet.chan_on_b,
                                           msg.packet.sequence)
        commitment_bytes == commit_packet(msg.packet)
        proof            == try_into_proof(msg.proof)
    IN  IF proof = Absent THEN Reject("MalformedProof")
        ELSE verify_merkle_proof(trusted_client_state.proof_specs,
                                 connection.prefix, proof[1],
                                 trusted_consensus_state.root,
                                 commitment_path, commitment_bytes)

\* verify_packet_ack_proof with the acknowledgement hashed before the check
verify_packet_ack_proof_committed(connection, msg, trusted_client_state, trusted_consensus_state) ==
    LET ack_path == AckPath(msg.packet.port_on_b, msg.packet.chan_on_b,
                            msg.packet.sequence)
        proof    == try_into_proof(msg.proof)
    IN  IF proof = Absent THEN Reject("MalformedProof")
        ELSE verify_merkle_proof(trusted_client_state.proof_specs,
                                 connection.prefix, proof[1],
                                 trusted_consensus_state.root,
                                 ack_path,
                                 commit_acknowledgement(msg.acknowledgement))

\* verify_packet_ack_proof, lines 273-290
verify_packet_ack_proof(connection, msg, trusted_client_state, trusted_consensus_state) ==
    LET ack_path == AckPath(msg.packet.port_on_b, msg.packet.chan_on_b,
                            msg.packet.sequence)
        proof    == try_into_proof(msg.proof)
    IN  IF proof = Absent THEN Reject("MalformedProof")
        ELSE verify_merkle_proof(trusted_client_state.proof_specs,
                                 connection.prefix, proof[1],
                                 trusted_consensus_state.root,
                                 ack_path, msg.acknowledgement)

\* verify_packet_timeout_proof, lines 306-324
verify_packet_timeout_proof(connection, msg, trusted_client_state, trusted_consensus_state) ==
    LET seq_bytes == encode_u64(msg.next_seq_recv_on_b)
        seq_path  == SeqRecvPath(msg.packet.port_on_b, msg.packet.chan_on_b)
        proof     == try_into_proof(msg.proof)
    IN  IF proof = Absent THEN Reject("MalformedProof")
        ELSE verify_merkle_proof(trusted_client_state.proof_specs,
                                 connection.prefix, proof[1],
                                 trusted_consensus_state.root,
                                 seq_path, seq_bytes)

\* verify_packet_timeout_absence_proof, lines 340-356
verify_packet_timeout_absence_proof(connection, msg, trusted_client_state, trusted_consensus_state) ==
    LET receipt_path == ReceiptPath(msg.packet.port_on_b, msg.packet.chan_on_b,
                                    msg.packet.sequence)
        proof        == try_into_proof(msg.proof)
    IN  IF proof = Absent THEN Reject("MalformedProof")
        ELSE verify_merkle_absence_proof(trusted_client_state.proof_specs,
                                         connection.prefix, proof[1],
                                         trusted_consensus_state.root,
                                         receipt_path)

\* the packet verifier of a call, once the trusted states are returned
packet_verifier(call) ==
    CASE call.kind = "recv" ->
             verify_packet_recv_proof(call.connection, call.msg,
                                      call.trusted_client_state,
                                      call.trusted_consensus_state)
      [] call.kind = "ack" ->
             verify_packet_ack_proof(call.connection, call.msg,
                                     call.trusted_client_state,
                                     call.trusted_consensus_state)
      [] call.kind = "timeout" ->
             verify_packet_timeout_proof(call.connection, call.msg,
                                         call.trusted_client_state,
                                         call.trusted_consensus_state)
      [] call.kind = "timeout_absence" ->
             verify_packet_timeout_absence_proof(call.connection, call.msg,
                                                 call.trusted_client_state,
                                                 call.trusted_consensus_state)

(***************************************************************************)
(* get_trusted_client_and_consensus_state and verify_channel_proof, one    *)
(* await point at a time: each operator takes the call and the value the   *)
(* state read returned, and gives the call at the next await point or at   *)
(* its return.                                                             *)
(***************************************************************************)
\* lines 373-378 with the frozen check left out
trusted_get_client_state_no_frozen(call, client_state) ==
    IF client_state = Absent
    THEN FailTrusted(Read(call, "get_client_state"), "ClientNotFound")
    ELSE [Read(call, "get_client_state") EXCEPT
              !.trusted_client_state = client_state[1],
              !.pc = "get_verified_consensus_state"]

\* lines 373-378: the client state, then the frozen check
trusted_get_client_state(call, client_state) ==
    IF client_state = Absent
    THEN FailTrusted(Read(call, "get_client_state"), "ClientNotFound")
    ELSE IF is_frozen(client_state[1])
    THEN FailTrusted(Read(call, "get_client_state"), "FrozenClient")
    ELSE [Read(call, "get_client_state") EXCEPT
              !.trusted_client_state = client_state[1],
              !.pc = "get_verified_consensus_state"]

\* lines 380-386 with the height check ahead of the lookup's result
trusted_get_verified_consensus_state_height_first(call, consensus_state) ==
    IF verify_height(call.trusted_client_state, call.proof_height) # "Ok"
    THEN FailTrusted(Read(call, "get_verified_consensus_state"),
                     verify_height(call.trusted_client_state, call.proof_height))
    ELSE IF consensus_state = Absent
    THEN FailTrusted(Read(call, "get_verified_consensus_state"),
                     "ConsensusStateNotFound")
    ELSE [Read(call, "get_verified_consensus_state") EXCEPT
              !.trusted_consensus_state = consensus_state[1],
              !.pc = "get_block_timestamp"]

\* lines 380-386: the verified consensus state, then the height check
trusted_get_verified_consensus_state(call, consensus_state) ==
    IF consensus_state = Absent
    THEN FailTrusted(Read(call, "get_verified_consensus_state"),
                     "ConsensusStateNotFound")
    ELSE IF verify_height(call.trusted_client_state, call.proof_height) # "Ok"
    THEN FailTrusted(Read(call, "get_verified_consensus_state"),
                     verify_height(call.trusted_client_state, call.proof_height))
    ELSE [Read(call, "get_verified_consensus_state") EXCEPT
              !.trusted_consensus_state = consensus_state[1],
              !.pc = "get_block_timestamp"]

\* line 390 with the block height read issued in place of the timestamp read
trusted_get_block_timestamp_reordered(call, timestamp) ==
    [Read(call, "get_block_height") EXCEPT
         !.current_timestamp = timestamp, !.pc = "get_block_height"]

\* line 390
trusted_get_block_timestamp(call, timestamp) ==
    [Read(call, "get_block_timestamp") EXCEPT
         !.current_timestamp = timestamp, !.pc = "get_block_height"]

\* line 391
trusted_get_block_height(call, height) ==
    [Read(call, "get_block_height") EXCEPT
         !.current_height = height, !.pc = "get_client_update_height"]

\* line 392
trusted_get_client_update_height(call, height) ==
    IF height = Absent
    THEN FailTrusted(Read(call, "get_client_update_height"),
                     "ClientUpdateHeightNotFound")
    ELSE [Read(call, "get_client_update_height") EXCEPT
              !.processed_height = height[1], !.pc = "get_client_update_time"]

\* lines 396-409 with the current and the processed time and height swapped
delay_check_swapped(call, processed_time) ==
    IF HeightNew(0, call.current_height) = Absent THEN "InvalidHeight"
    ELSE verify_delay_passed(
             processed_time[1],
             call.processed_height,
             call.current_timestamp,
             HeightNew(0, call.current_height)[1],
             call.connection.delay_period,
             BigToNat(delay_period_blocks[call.connection.delay_period]))

\* lines 396-409: the delay check, once the four values are read
delay_check(call, processed_time) ==
    IF HeightNew(0, call.current_height) = Absent THEN "InvalidHeight"
    ELSE verify_delay_passed(
             call.current_timestamp,
             HeightNew(0, call.current_height)[1],
             processed_time[1],
             call.processed_height,
             call.connection.delay_period,
             BigToNat(delay_period_blocks[call.connection.delay_period]))

\* lines 393-411 with the result of the delay check dropped
trusted_get_client_update_time_no_delay(call, processed_time) ==
    IF processed_time = Absent
    THEN FailTrusted(Read(call, "get_client_update_time"),
                     "ClientUpdateTimeNotFound")
    ELSE Finish([Read(call, "get_client_update_time") EXCEPT
                     !.processed_time = processed_time[1], !.trusted = "Ok"],
                packet_verifier(call))

\* lines 393-411, then the packet verifier that awaited the trusted states
trusted_get_client_update_time(call, processed_time) ==
    IF processed_time = Absent
    THEN FailTrusted(Read(call, "get_client_update_time"),
                     "ClientUpdateTimeNotFound")
    ELSE IF delay_check(call, processed_time) # "Ok"
    THEN FailTrusted([Read(call, "get_client_update_time") EXCEPT
                          !.processed_time = processed_time[1]],
                     delay_check(call, processed_time))
    ELSE Finish([Read(call, "get_client_update_time") EXCEPT
                     !.processed_time = processed_time[1], !.trusted = "Ok"],
                packet_verifier(call))

\* verify_channel_proof, lines 118-124
channel_get_client_state(call, trusted_client_state) ==
    IF trusted_client_state = Absent
    THEN Finish(Read(call, "get_client_state"), Reject("ClientNotFound"))
    ELSE IF is_frozen(trusted_client_state[1])
    THEN Finish(Read(call, "get_client_state"), Reject("FrozenClient"))
    ELSE [Read(call, "get_client_state") EXCEPT
              !.trusted_client_state = trusted_client_state[1],
              !.pc = "get_verified_consensus_state"]

\* verify_channel_proof, lines 127-143
channel_get_verified_consensus_state(call, trusted_consensus_state) ==
    IF trusted_consensus_state = Absent
    THEN Finish(Read(call, "get_verified_consensus_state"),
                Reject("ConsensusStateNotFound"))
    ELSE IF verify_height(call.trusted_client_state, call.proof_height) # "Ok"
    THEN Finish(Read(call, "get_verified_consensus_state"),
                Reject(verify_height(call.trusted_client_state, call.proof_height)))
    ELSE Finish([Read(call, "get_verified_consensus_state") EXCEPT
                     !.trusted_consensus_state = trusted_consensus_state[1]],
                verify_merkle_proof(
                    call.trusted_client_state.proof_specs,
                    call.connection.prefix,
                    call.msg.proof,
                    trusted_consensus_state[1].root,
                    ChannelEndPath(call.msg.port_id, call.msg.channel_id),
                    encode_channel(call.msg.expected_channel)))

(***************************************************************************)
(* The calls.                                                              *)
(***************************************************************************)
Connection(client_id, delay_period) ==
    [client_id |-> client_id, delay_period |-> delay_period, prefix |-> Prefix]

\* the claim a packet message makes: the check, the path and the value
PacketClaim(kind, packet, acknowledgement, next_seq_recv_on_b) ==
    CASE kind = "recv" ->
             [check |-> "exist",
              path  |-> CommitmentPath(packet.port_on_b, packet.chan_on_b,
                                       packet.sequence),
              value |-> commit_packet(packet)]
      [] kind = "ack" ->
             [check |-> "exist",
              path  |-> AckPath(packet.port_on_b, packet.chan_on_b, packet.sequence),
              value |-> acknowledgement]
      [] kind = "timeout" ->
             [check |-> "exist",
              path  |-> SeqRecvPath(packet.port_on_b, packet.chan_on_b),
              value |-> encode_u64(next_seq_recv_on_b)]
      [] kind = "timeout_absence" ->
             [check |-> "nonexist",
              path  |-> ReceiptPath(packet.port_on_b, packet.chan_on_b,
                                    packet.sequence),
              value |-> Absent]

OtherValue == <<"other">>

\* the client states a caller may hand to the connection and client verifiers
ClientStateArgs ==
    {ClientState(frozen_height, Height(0, 2), "iavl") :
        frozen_height \in {Absent, Some(Height(0, 2))}}

AllIdle == \A c \in CallIds : calls[c].pc = "idle"

\* a caller awaits one of the packet verifiers `kinds`, for a connection and
\* a proof height among those given
StartPacketWith(c, kinds, client_ids, delay_periods, proof_heights) ==
    /\ calls[c].pc = "idle"
    /\ \E kind \in kinds, client_id \in client_ids,
          delay_period \in delay_periods, proof_height \in proof_heights,
          packet \in Packets, acknowledgement \in Acknowledgements :
          LET claim == PacketClaim(kind, packet, acknowledgement, packet.sequence)
          IN  \E proof \in ProofChoices(claim.check,
                                        apply_prefix(Prefix, claim.path),
                                        claim.value, OtherValue) \cup {Malformed} :
                  calls' = [calls EXCEPT ![c] =
                      NewCall(kind, Connection(client_id, delay_period), proof_height,
                              [packet |-> packet, proof |-> proof,
                               acknowledgement |-> acknowledgement,
                               next_seq_recv_on_b |-> packet.sequence])]
    /\ UNCHANGED <<chain, block_delay>>

\* a caller awaits one of the four packet verifiers
StartPacket(c) ==
    StartPacketWith(c, PacketKinds, ClientIds, DelayPeriods, ProofHeights)

\* a caller awaits verify_channel_proof, for a connection and a proof height
\* among those given
StartChannelWith(c, client_ids, delay_periods, proof_heights) ==
    /\ calls[c].pc = "idle"
    /\ \E client_id \in client_ids, delay_period \in delay_periods,
          proof_height \in proof_heights, expected_channel \in ChannelEnds :
          LET other == CHOOSE ch \in ChannelEnds : ch # expected_channel
          IN  \E proof \in ProofChoices(
                      "exist",
                      apply_prefix(Prefix, ChannelEndPath("transfer", "channel-0")),
                      encode_channel(expected_channel), encode_channel(other)) :
                  calls' = [calls EXCEPT ![c] =
                      NewCall("channel", Connection(client_id, delay_period),
                              proof_height,
                              [proof |-> proof, port_id |-> "transfer",
                               channel_id |-> "channel-0",
                               expected_channel |-> expected_channel])]
    /\ UNCHANGED <<chain, block_delay>>

\* a caller awaits verify_channel_proof
StartChannel(c) == StartChannelWith(c, ClientIds, DelayPeriods, ProofHeights)

\* the call's read of the client state returns
GetClientState(c) ==
    /\ calls[c].pc = "get_client_state"
    /\ LET client_state == client_states[calls[c].connection.client_id]
       IN  calls' = [calls EXCEPT ![c] =
               IF calls[c].kind = "channel"
               THEN channel_get_client_state(calls[c], client_state)
               ELSE trusted_get_client_state(calls[c], client_state)]
    /\ UNCHANGED <<chain, block_delay>>

\* the read of the verified consensus state at the client's first height
\* instead of the proof height
GetVerifiedConsensusStateAnyHeight(c) ==
    /\ calls[c].pc = "get_verified_consensus_state"
    /\ LET consensus_state ==
               consensus_states[<<calls[c].connection.client_id, Height(0, 1)>>]
       IN  calls' = [calls EXCEPT ![c] =
               IF calls[c].kind = "channel"
               THEN channel_get_verified_consensus_state(calls[c], consensus_state)
               ELSE trusted_get_verified_consensus_state(calls[c], consensus_state)]
    /\ UNCHANGED <<chain, block_delay>>

\* the read of the verified consensus state, taking it out of the store
GetVerifiedConsensusStateTaking(c) ==
    /\ calls[c].pc = "get_verified_consensus_state"
    /\ LET consensus_state ==
               consensus_states[<<calls[c].connection.client_id,
                                  calls[c].proof_height>>]
       IN  calls' = [calls EXCEPT ![c] =
               IF calls[c].kind = "channel"
               THEN channel_get_verified_consensus_state(calls[c], consensus_state)
               ELSE trusted_get_verified_consensus_state(calls[c], consensus_state)]
    /\ consensus_states' =
           [consensus_states EXCEPT
               ![<<calls[c].connection.client_id, calls[c].proof_height>>] = Absent]
    /\ UNCHANGED <<client_states, client_update_height, client_update_time,
                   block_height, block_timestamp, block_delay>>

\* the call's read of the verified consensus state returns
GetVerifiedConsensusState(c) ==
    /\ calls[c].pc = "get_verified_consensus_state"
    /\ LET consensus_state ==
               consensus_states[<<calls[c].connection.client_id,
                                  calls[c].proof_height>>]
       IN  calls' = [calls EXCEPT ![c] =
               IF calls[c].kind = "channel"
               THEN channel_get_verified_consensus_state(calls[c], consensus_state)
               ELSE trusted_get_verified_consensus_state(calls[c], consensus_state)]
    /\ UNCHANGED <<chain, block_delay>>

GetBlockTimestamp(c) ==
    /\ calls[c].pc = "get_block_timestamp"
    /\ calls' = [calls EXCEPT ![c] =
                     trusted_get_block_timestamp(calls[c], block_timestamp)]
    /\ UNCHANGED <<chain, block_delay>>

GetBlockHeight(c) ==
    /\ calls[c].pc = "get_block_height"
    /\ calls' = [calls EXCEPT ![c] = trusted_get_block_height(calls[c], block_height)]
    /\ UNCHANGED <<chain, block_delay>>

GetClientUpdateHeight(c) ==
    /\ calls[c].pc = "get_client_update_height"
    /\ calls' = [calls EXCEPT ![c] =
           trusted_get_client_update_height(
               calls[c],
               client_update_height[<<calls[c].connection.client_id,
                                      calls[c].proof_height>>])]
    /\ UNCHANGED <<chain, block_delay>>

\* the read of the client update time, refreshing the record it reads
GetClientUpdateTimeRecording(c) ==
    /\ calls[c].pc = "get_client_update_time"
    /\ calls' = [calls EXCEPT ![c] =
           trusted_get_client_update_time(
               calls[c],
               client_update_time[<<calls[c].connection.client_id,
                                    calls[c].proof_height>>])]
    /\ client_update_time' =
           [client_update_time EXCEPT
               ![<<calls[c].connection.client_id, calls[c].proof_height>>] =
                   Some(block_timestamp)]
    /\ UNCHANGED <<client_states, consensus_states, client_update_height,
                   block_height, block_timestamp, block_delay>>

GetClientUpdateTime(c) ==
    /\ calls[c].pc = "get_client_update_time"
    /\ calls' = [calls EXCEPT ![c] =
           trusted_get_client_update_time(
               calls[c],
               client_update_time[<<calls[c].connection.client_id,
                                    calls[c].proof_height>>])]
    /\ UNCHANGED <<chain, block_delay>>

\* the three verifiers that read no state run to their return in one step
PureCall(kind, client_state, height, proof, root, path, expected) ==
    [NewCall(kind, NotBound, height,
             [client_state |-> client_state, prefix |-> Prefix, proof |-> proof,
              root |-> root, path |-> path, expected |-> expected])
        EXCEPT !.pc = "done"]

VerifyConnectionState(c) ==
    /\ calls[c].pc = "idle"
    /\ \E client_state \in ClientStateArgs, height \in ProofHeights,
          root \in Roots, expected \in ConnectionEnds :
          LET conn_path == <<"connections", "connection-0">>
              other     == CHOOSE e \in ConnectionEnds : e # expected
          IN  \E proof \in ProofChoices("exist", apply_prefix(Prefix, conn_path),
                                        encode_connection(expected),
                                        encode_connection(other)) :
                  calls' = [calls EXCEPT ![c] =
                      Finish(PureCall("connection", client_state, height, proof,
                                      root, conn_path, expected),
                             verify_connection_state(client_state, height, Prefix,
                                                     proof, root, conn_path,
                                                     expected))]
    /\ UNCHANGED <<chain, block_delay>>

VerifyClientFullState(c) ==
    /\ calls[c].pc = "idle"
    /\ \E client_state \in ClientStateArgs, height \in ProofHeights,
          root \in Roots, expected \in ExpectedClientStates :
          LET client_state_path == <<"clients", "07-tendermint-9", "clientState">>
              other == CHOOSE e \in ExpectedClientStates : e # expected
          IN  \E proof \in ProofChoices("exist",
                                        apply_prefix(Prefix, client_state_path),
                                        encode_client_state(expected),
                                        encode_client_state(other)) :
                  calls' = [calls EXCEPT ![c] =
                      Finish(PureCall("client_state", client_state, height, proof,
                                      root, client_state_path, expected),
                             verify_client_full_state(client_state, height, Prefix,
                                                      proof, root, client_state_path,
                                                      expected))]
    /\ UNCHANGED <<chain, block_delay>>

VerifyClientConsensusState(c) ==
    /\ calls[c].pc = "idle"
    /\ \E client_state \in ClientStateArgs, height \in ProofHeights,
          root \in Roots, expected \in ExpectedConsensusStates :
          LET client_cons_state_path ==
                  <<"clients", "07-tendermint-9", "consensusStates", Height(0, 5)>>
              other == CHOOSE e \in ExpectedConsensusStates : e # expected
          IN  \E proof \in ProofChoices("exist",
                                        apply_prefix(Prefix, client_cons_state_path),
                                        encode_consensus_state(expected),
                                        encode_consensus_state(other)) :
                  calls' = [calls EXCEPT ![c] =
                      Finish(PureCall("client_consensus_state", client_state, height,
                                      proof, root, client_cons_state_path, expected),
                             verify_client_consensus_state(
                                 client_state, height, Prefix, proof, root,
                                 client_cons_state_path, expected))]
    /\ UNCHANGED <<chain, block_delay>>

\* the caller takes the result, or is done with the call it dropped
Return(c) ==
    /\ calls[c].pc \in {"done", "cancelled"}
    /\ calls' = [calls EXCEPT ![c] = IdleCall]
    /\ UNCHANGED <<chain, block_delay>>

\* the caller drops the future of a call that is suspended on a read
Cancel(c) ==
    /\ calls[c].pc \notin {"idle", "done", "cancelled"}
    /\ calls' = [calls EXCEPT ![c].pc = "cancelled"]
    /\ UNCHANGED <<chain, block_delay>>

(***************************************************************************)
(* The rest of the node, which writes the state between verifications:     *)
(* the verifiers run against a snapshot, so no write falls inside a call.  *)
(***************************************************************************)
NextBlock ==
    /\ AllIdle
    /\ block_height < MaxBlockHeight
    /\ block_height' = block_height + 1
    /\ block_timestamp' = block_timestamp + BlockSeconds
    /\ UNCHANGED <<client_states, consensus_states, client_update_height,
                   client_update_time, calls, block_delay>>

\* a client update stores a verified consensus state and when it was recorded
UpdateClient(client_id) ==
    /\ AllIdle
    /\ client_states[client_id] # Absent
    /\ ~is_frozen(client_states[client_id][1])
    /\ consensus_states[<<client_id, Height(0, 2)>>] = Absent
    /\ consensus_states' =
           [consensus_states EXCEPT
               ![<<client_id, Height(0, 2)>>] = Some([root |-> "root2"])]
    /\ client_states' =
           [client_states EXCEPT ![client_id][1].latest_height = Height(0, 2)]
    /\ client_update_height' =
           [client_update_height EXCEPT
               ![<<client_id, Height(0, 2)>>] = Some(Height(0, block_height))]
    /\ client_update_time' =
           [client_update_time EXCEPT
               ![<<client_id, Height(0, 2)>>] = Some(block_timestamp)]
    /\ UNCHANGED <<block_height, block_timestamp, calls, block_delay>>

\* misbehaviour freezes a client
FreezeClient(client_id) ==
    /\ AllIdle
    /\ client_states[client_id] # Absent
    /\ ~is_frozen(client_states[client_id][1])
    /\ client_states' =
           [client_states EXCEPT
               ![client_id][1].frozen_height =
                   Some(client_states[client_id][1].latest_height)]
    /\ UNCHANGED <<consensus_states, client_update_height, client_update_time,
                   block_height, block_timestamp, calls, block_delay>>

IdleBlockDelay ==
    [pc |-> "idle", delay_period_time |-> None,
     max_expected_time_per_block |-> None, result |-> None]

\* the chain states the model starts from: client 07-tendermint-0 holds the
\* consensus state of height 0-1, recorded at block 10 and second 1000
InitBlocks == {<<12, 1050>>, <<14, 1150>>, <<15, 1150>>, <<15, 1050>>}

InitChain ==
    /\ client_states =
           [id \in ClientIds |->
               IF id = "07-tendermint-0"
               THEN Some(ClientState(Absent, Height(0, 1), "iavl")) ELSE Absent]
    /\ consensus_states =
           [k \in StoreKeys |->
               IF k = <<"07-tendermint-0", Height(0, 1)>>
               THEN Some([root |-> "root1"]) ELSE Absent]
    /\ client_update_height =
           [k \in StoreKeys |->
               IF k = <<"07-tendermint-0", Height(0, 1)>>
               THEN Some(Height(0, 10)) ELSE Absent]
    /\ client_update_time =
           [k \in StoreKeys |->
               IF k = <<"07-tendermint-0", Height(0, 1)>> THEN Some(1000) ELSE Absent]
    /\ \E b \in InitBlocks : block_height = b[1] /\ block_timestamp = b[2]

Init ==
    /\ InitChain
    /\ calls = [c \in CallIds |-> IdleCall]
    /\ block_delay = IdleBlockDelay

Next ==
    \/ \E c \in SeqCallIds :
          \/ StartPacket(c)
          \/ StartChannel(c)
          \/ GetClientState(c)
          \/ GetVerifiedConsensusState(c)
          \/ GetBlockTimestamp(c)
          \/ GetBlockHeight(c)
          \/ GetClientUpdateHeight(c)
          \/ GetClientUpdateTime(c)
          \/ VerifyConnectionState(c)
          \/ VerifyClientFullState(c)
          \/ VerifyClientConsensusState(c)
          \/ Return(c)
          \/ Cancel(c)
    \/ NextBlock
    \/ \E client_id \in ClientIds : UpdateClient(client_id) \/ FreezeClient(client_id)

Spec == Init /\ [][Next]_vars

(***************************************************************************)
(* Concurrent verification: the callers of CallIds await verifiers at the  *)
(* same time, their reads interleaved in any order.  The calls borrow the  *)
(* state (&self), so the node writes it only when no call is in progress.  *)
(***************************************************************************)
ConcPacketKinds == {"recv", "timeout_absence"}

ConcDelayPeriods == {Dur(100, 0)}

ConcProofHeights == {Height(0, 1)}

ConcStartPacket(c) ==
    StartPacketWith(c, ConcPacketKinds, ClientIds, ConcDelayPeriods,
                    ConcProofHeights)

ConcStartChannel(c) ==
    StartChannelWith(c, ClientIds, ConcDelayPeriods, ConcProofHeights)

NextConc ==
    \/ \E c \in CallIds :
          \/ ConcStartPacket(c)
          \/ ConcStartChannel(c)
          \/ GetClientState(c)
          \/ GetVerifiedConsensusState(c)
          \/ GetBlockTimestamp(c)
          \/ GetBlockHeight(c)
          \/ GetClientUpdateHeight(c)
          \/ GetClientUpdateTime(c)
          \/ Return(c)
    \/ NextBlock
    \/ \E client_id \in ClientIds : FreezeClient(client_id)

SpecConc == Init /\ [][NextConc]_vars

(***************************************************************************)
(* The verifiers on a store that holds more than one client: client        *)
(* 07-tendermint-1, when it exists, has other proof specs and a consensus  *)
(* state of another root at height 0-2, recorded at block 11.              *)
(***************************************************************************)
InitStore ==
    /\ \E other \in {Absent, Some(ClientState(Absent, Height(0, 2), "jmt"))} :
          /\ client_states =
                 [id \in ClientIds |->
                     IF id = "07-tendermint-0"
                     THEN Some(ClientState(Absent, Height(0, 1), "iavl"))
                     ELSE other]
          /\ consensus_states =
                 [k \in StoreKeys |->
                     IF k = <<"07-tendermint-0", Height(0, 1)>>
                     THEN Some([root |-> "root1"])
                     ELSE IF k = <<"07-tendermint-1", Height(0, 2)>> /\ other # Absent
                     THEN Some([root |-> "root2"])
                     ELSE Absent]
          /\ client_update_height =
                 [k \in StoreKeys |->
                     IF k = <<"07-tendermint-0", Height(0, 1)>>
                     THEN Some(Height(0, 10))
                     ELSE IF k = <<"07-tendermint-1", Height(0, 2)>> /\ other # Absent
                     THEN Some(Height(0, 11))
                     ELSE Absent]
          /\ client_update_time =
                 [k \in StoreKeys |->
                     IF k = <<"07-tendermint-0", Height(0, 1)>> THEN Some(1000)
                     ELSE IF k = <<"07-tendermint-1", Height(0, 2)>> /\ other # Absent
                     THEN Some(1020)
                     ELSE Absent]
    /\ block_height = 15
    /\ block_timestamp = 1150
    /\ calls = [c \in CallIds |-> IdleCall]
    /\ block_delay = IdleBlockDelay

SpecStore == InitStore /\ [][Next]_vars

(***************************************************************************)
(* The delay gate while the chain makes progress: the update height of the *)
(* consensus state 0-1 is recorded with revision number 0 or 1, and blocks *)
(* follow one another at several distances in time.                        *)
(***************************************************************************)
UpdateRevisions == {0, 1}

BlockSteps == {0, 1, BlockSeconds}

InitGate ==
    /\ client_states =
           [id \in ClientIds |->
               IF id = "07-tendermint-0"
               THEN Some(ClientState(Absent, Height(0, 1), "iavl")) ELSE Absent]
    /\ consensus_states =
           [k \in StoreKeys |->
               IF k = <<"07-tendermint-0", Height(0, 1)>>
               THEN Some([root |-> "root1"]) ELSE Absent]
    /\ \E rn \in UpdateRevisions :
          client_update_height =
              [k \in StoreKeys |->
                  IF k = <<"07-tendermint-0", Height(0, 1)>>
                  THEN Some(Height(rn, 10)) ELSE Absent]
    /\ client_update_time =
           [k \in StoreKeys |->
               IF k = <<"07-tendermint-0", Height(0, 1)>> THEN Some(1000) ELSE Absent]
    /\ block_height = 12
    /\ block_timestamp = 1050
    /\ calls = [c \in CallIds |-> IdleCall]
    /\ block_delay = IdleBlockDelay

\* the chain commits its next block, some time after the last
ProduceBlock ==
    /\ AllIdle
    /\ block_height < MaxBlockHeight
    /\ block_height' = block_height + 1
    /\ \E step \in BlockSteps : block_timestamp' = block_timestamp + step
    /\ UNCHANGED <<client_states, consensus_states, client_update_height,
                   client_update_time, calls, block_delay>>

GateStartPacket(c) ==
    StartPacketWith(c, {"recv"}, {"07-tendermint-0"}, DelayPeriods, ProofHeights)

NextGate ==
    \/ \E c \in SeqCallIds :
          \/ GateStartPacket(c)
          \/ GetClientState(c)
          \/ GetVerifiedConsensusState(c)
          \/ GetBlockTimestamp(c)
          \/ GetBlockHeight(c)
          \/ GetClientUpdateHeight(c)
          \/ GetClientUpdateTime(c)
          \/ Return(c)
    \/ ProduceBlock
    \/ \E client_id \in ClientIds : UpdateClient(client_id)

SpecGate == InitGate /\ [][NextGate]_vars

(***************************************************************************)
(* The delay gate on a chain that keeps producing blocks, BlockSeconds     *)
(* apart, from block 12 on; every call that is awaited runs to its return. *)
(***************************************************************************)
CallStep(c) ==
    \/ GetClientState(c)
    \/ GetVerifiedConsensusState(c)
    \/ GetBlockTimestamp(c)
    \/ GetBlockHeight(c)
    \/ GetClientUpdateHeight(c)
    \/ GetClientUpdateTime(c)
    \/ Return(c)

NextLive ==
    \/ \E c \in SeqCallIds : GateStartPacket(c) \/ CallStep(c)
    \/ NextBlock

\* where each call stands: every step of a call changes it
CallPcs == [c \in CallIds |-> calls[c].pc]

FairLive ==
    /\ SF_block_height(NextBlock)
    /\ \A c \in SeqCallIds : WF_CallPcs(CallStep(c))

SpecLive == InitGate /\ [][NextLive]_vars /\ FairLive

(***************************************************************************)
(* calculate_block_delay on its own: a caller applies it to a delay period *)
(* and an expected block time.                                             *)
(***************************************************************************)
\* the whole seconds 0..MaxSmallSecs are among the delay periods tried
MaxSmallSecs == 3

BlockDelaySecs ==
    (0..MaxSmallSecs) \cup {20, 40, 61, 100, 16777220, 335544320, 2147483647}

BlockDelayNanos == {0, 1, 999999999}

BlockDelayPeriods == {Dur(secs, nanos) : secs \in BlockDelaySecs, nanos \in BlockDelayNanos}

BlockTimes == {Dur(0, 0), Dur(20, 0), Dur(1, 0), Dur(0, 1), Dur(19, 999999999)}

CallCalculateBlockDelay ==
    /\ block_delay.pc = "idle"
    /\ \E delay_period_time \in BlockDelayPeriods,
          max_expected_time_per_block \in BlockTimes :
          block_delay' =
              [pc |-> "done",
               delay_period_time |-> delay_period_time,
               max_expected_time_per_block |-> max_expected_time_per_block,
               result |-> calculate_block_delay(delay_period_time,
                                                max_expected_time_per_block)]
    /\ UNCHANGED <<chain, calls>>

ReturnBlockDelay ==
    /\ block_delay.pc = "done"
    /\ block_delay' = IdleBlockDelay
    /\ UNCHANGED <<chain, calls>>

NextDelay == CallCalculateBlockDelay \/ ReturnBlockDelay

InitDelay == Init /\ block_height = 12

SpecDelay == InitDelay /\ [][NextDelay]_vars

(***************************************************************************)
(* What the claims speak of, read off the chain state and a call's         *)
(* arguments rather than off the call's own bookkeeping.                   *)
(***************************************************************************)
StoreKinds == PacketKinds \cup {"channel"}

Finished(call) == call.pc = "done"

\* the stored client state of the connection's client (an Option)
StoredClient(call) == client_states[call.connection.client_id]

\* the stored verified consensus state at the proof height (an Option)
StoredConsensus(call) ==
    consensus_states[<<call.connection.client_id, call.proof_height>>]

StoredUpdateHeight(call) ==
    client_update_height[<<call.connection.client_id, call.proof_height>>]

StoredUpdateTime(call) ==
    client_update_time[<<call.connection.client_id, call.proof_height>>]

ClientFrozen(call) ==
    StoredClient(call) # Absent /\ StoredClient(call)[1].frozen_height # Absent

HeightTooHigh(call) ==
    /\ StoredClient(call) # Absent
    /\ HeightLT(StoredClient(call)[1].latest_height, call.proof_height)

\* ceil(delay_period / 20 s) for the connections of the model, from the code's
\* own calculate_block_delay
ClaimedDelayBlocks ==
    [d \in DelayPeriods |-> BigToNat(calculate_block_delay(d, Dur(20, 0)))]

\* current_time >= processed_time + delay_period
TimeElapsed(call) ==
    \/ block_timestamp > StoredUpdateTime(call)[1] + call.connection.delay_period.secs
    \/ /\ block_timestamp =
              StoredUpdateTime(call)[1] + call.connection.delay_period.secs
       /\ call.connection.delay_period.nanos = 0

\* current_height >= processed_height + delay_blocks, as Heights
BlocksElapsed(call) ==
    LET processed == StoredUpdateHeight(call)[1]
        earliest  == Height(processed.revision_number,
                            processed.revision_height
                                + ClaimedDelayBlocks[call.connection.delay_period])
    IN  ~HeightLT(Height(0, block_height), earliest)

\* the statement the call's verifier has to see proved
ExpectedStatement(call) ==
    IF call.kind = "channel"
    THEN [check |-> "exist",
          path  |-> ChannelEndPath(call.msg.port_id, call.msg.channel_id),
          value |-> encode_channel(call.msg.expected_channel)]
    ELSE PacketClaim(call.kind, call.msg.packet, call.msg.acknowledgement,
                     call.msg.next_seq_recv_on_b)

\* the proof the message carries proves the call's statement under the stored
\* root and proof specs: the oracle accepts it
OracleWouldAccept(call) ==
    /\ StoredClient(call) # Absent
    /\ StoredConsensus(call) # Absent
    /\ call.msg.proof =
           MerkleProof(ExpectedStatement(call).check,
                       StoredClient(call)[1].proof_specs,
                       StoredConsensus(call)[1].root,
                       apply_prefix(call.connection.prefix,
                                    ExpectedStatement(call).path),
                       ExpectedStatement(call).value)

\* C1: for the four packet verifiers (and get_trusted_client_and_consensus_state
\* inside them) and verify_channel_proof, a call against a connection whose
\* stored client state is frozen is rejected, whatever the proof, path, value,
\* height and chain time: it returns FrozenClient and never asks the oracle.
C1_FrozenRejected ==
    \A c \in CallIds :
        (/\ calls[c].kind \in StoreKinds
         /\ Finished(calls[c])
         /\ ClientFrozen(calls[c]))
        => /\ calls[c].result = "FrozenClient"
           /\ calls[c].trusted # "Ok"
           /\ calls[c].oracle = <<>>

\* a frozen client rejected although the oracle would accept the proof
C1_Witness ==
    \E c \in CallIds :
        /\ calls[c].kind \in PacketKinds
        /\ Finished(calls[c])
        /\ ClientFrozen(calls[c])
        /\ OracleWouldAccept(calls[c])
        /\ calls[c].result = "FrozenClient"

\* C2: get_trusted_client_and_consensus_state succeeds exactly when, besides
\* the earlier checks, both current_time >= processed_time + delay_period and
\* current_height >= processed_height + delay_blocks hold, with delay_blocks =
\* calculate_block_delay(delay_period, 20 s): a call that reaches the delay
\* check with either one false returns DelayNotElapsed.  With a delay of 100 s,
\* processed height 10 and current time 150 s after the processed time, height
\* 14 is rejected and height 15 passes.
C2_DelayGate ==
    \A c \in CallIds :
        (calls[c].kind \in PacketKinds /\ Finished(calls[c]))
        => /\ calls[c].trusted = "Ok"
                => TimeElapsed(calls[c]) /\ BlocksElapsed(calls[c])
           /\ (Len(calls[c].reads) = 6 /\ calls[c].trusted # "Ok")
                => /\ calls[c].result = "DelayNotElapsed"
                   /\ ~(TimeElapsed(calls[c]) /\ BlocksElapsed(calls[c]))
           /\ (/\ Len(calls[c].reads) = 6
               /\ calls[c].connection.delay_period = Dur(100, 0)
               /\ StoredUpdateHeight(calls[c])[1] = Height(0, 10)
               /\ block_timestamp = StoredUpdateTime(calls[c])[1] + 150)
                => /\ block_height = 14 => calls[c].result = "DelayNotElapsed"
                   /\ block_height = 15 => calls[c].trusted = "Ok"

\* the scenario's rejection: 100 s, processed at block 10, block 14, 150 s later
C2_Witness ==
    \E c \in CallIds :
        /\ calls[c].kind \in PacketKinds
        /\ Finished(calls[c])
        /\ calls[c].connection.delay_period = Dur(100, 0)
        /\ StoredUpdateHeight(calls[c]) = Some(Height(0, 10))
        /\ block_timestamp = StoredUpdateTime(calls[c])[1] + 150
        /\ block_height = 14
        /\ calls[c].result = "DelayNotElapsed"

\* the scenario's acceptance at block 15
C2_WitnessAccepted ==
    \E c \in CallIds :
        /\ calls[c].kind \in PacketKinds
        /\ Finished(calls[c])
        /\ calls[c].connection.delay_period = Dur(100, 0)
        /\ StoredUpdateHeight(calls[c]) = Some(Height(0, 10))
        /\ block_timestamp = StoredUpdateTime(calls[c])[1] + 150
        /\ block_height = 15
        /\ calls[c].trusted = "Ok"

\* the client state a call verifies against: the argument of the connection and
\* client verifiers, the stored client state of the others (an Option)
VerifiedAgainst(call) ==
    IF call.kind \in PureKinds THEN Some(call.msg.client_state)
    ELSE StoredClient(call)

\* the value a connection or client verifier expects at its path
PureExpectedValue(call) ==
    CASE call.kind = "connection" -> encode_connection(call.msg.expected)
      [] call.kind = "client_state" -> encode_client_state(call.msg.expected)
      [] call.kind = "client_consensus_state" ->
             encode_consensus_state(call.msg.expected)

\* the proof handed to a connection or client verifier proves its statement
\* under the root and the proof specs it was given
PureOracleWouldAccept(call) ==
    call.msg.proof =
        MerkleProof("exist", call.msg.client_state.proof_specs, call.msg.root,
                    apply_prefix(call.msg.prefix, call.msg.path),
                    PureExpectedValue(call))

\* C3: no verifier of the module returns success when the client state it
\* verifies against is frozen; this is stated of all eight verifiers, the
\* connection, client-state and client-consensus-state verifiers included.
C3_FrozenNeverPasses ==
    \A c \in CallIds :
        (Finished(calls[c]) /\ calls[c].result = "Ok")
        => /\ VerifiedAgainst(calls[c]) # Absent
           /\ VerifiedAgainst(calls[c])[1].frozen_height = Absent

FirstFailure(call) ==
    IF StoredClient(call) = Absent THEN "ClientNotFound"
    ELSE IF ClientFrozen(call) THEN "FrozenClient"
    ELSE IF StoredConsensus(call) = Absent THEN "ConsensusStateNotFound"
    ELSE IF HeightTooHigh(call) THEN "InvalidHeight"
    ELSE IF StoredUpdateHeight(call) = Absent THEN "ClientUpdateHeightNotFound"
    ELSE IF StoredUpdateTime(call) = Absent THEN "ClientUpdateTimeNotFound"
    ELSE IF ~(TimeElapsed(call) /\ BlocksElapsed(call)) THEN "DelayNotElapsed"
    ELSE IF call.msg.proof = Malformed THEN "MalformedProof"
    ELSE IF ~OracleWouldAccept(call) THEN "ProofVerificationFailed"
    ELSE "Ok"

\* C5: when several rejection conditions hold at once in a packet verifier
\* call, the error returned is the first in the order client not found, frozen
\* client, consensus state not found, invalid height, delay not elapsed,
\* malformed proof, proof verification failed.
C5_FirstFailureReported ==
    \A c \in CallIds :
        (calls[c].kind \in PacketKinds /\ Finished(calls[c]))
        => calls[c].result = FirstFailure(calls[c])

\* a frozen client is reported as frozen although the consensus state is
\* missing, the height is too high and the proof bytes are malformed
C5_Witness ==
    \E c \in CallIds :
        /\ calls[c].kind \in PacketKinds
        /\ Finished(calls[c])
        /\ ClientFrozen(calls[c])
        /\ StoredConsensus(calls[c]) = Absent
        /\ HeightTooHigh(calls[c])
        /\ calls[c].msg.proof = Malformed
        /\ calls[c].result = "FrozenClient"

\* the state reads of get_trusted_client_and_consensus_state, in program order
TrustedReads ==
    <<"get_client_state", "get_verified_consensus_state", "get_block_timestamp",
      "get_block_height", "get_client_update_height", "get_client_update_time">>

\* the reads a finished call has issued, given what the store holds
ExpectedReads(call) ==
    IF StoredClient(call) = Absent \/ ClientFrozen(call) THEN 1
    ELSE IF StoredConsensus(call) = Absent \/ HeightTooHigh(call) THEN 2
    ELSE IF StoredUpdateHeight(call) = Absent THEN 5
    ELSE 6

\* C6: within one call of get_trusted_client_and_consensus_state the reads are
\* issued one at a time in program order (client state, verified consensus
\* state, block timestamp, block height, client update height, client update
\* time), the read a suspended call waits for is the one after those that have
\* completed, and a call that fails at a step has issued no later state read
\* and no oracle query.
C6_StrictSequence ==
    \A c \in CallIds :
        calls[c].kind \in PacketKinds
        => /\ Len(calls[c].reads) <= Len(TrustedReads)
           /\ calls[c].reads = SubSeq(TrustedReads, 1, Len(calls[c].reads))
           /\ calls[c].pc \notin {"done", "cancelled"}
                => /\ Len(calls[c].reads) < Len(TrustedReads)
                   /\ calls[c].pc = TrustedReads[Len(calls[c].reads) + 1]
                   /\ calls[c].oracle = <<>>
           /\ Finished(calls[c])
                => /\ Len(calls[c].reads) = ExpectedReads(calls[c])
                   /\ calls[c].trusted # "Ok" => calls[c].oracle = <<>>

\* a call that fails the delay check after all six reads, with a proof the
\* oracle would accept, asks the oracle nothing
C6_Witness ==
    \E c \in CallIds :
        /\ calls[c].kind \in PacketKinds
        /\ Finished(calls[c])
        /\ calls[c].reads = TrustedReads
        /\ calls[c].result = "DelayNotElapsed"
        /\ OracleWouldAccept(calls[c])
        /\ calls[c].oracle = <<>>

\* a call that fails at the consensus state lookup stops after two reads
C6_WitnessShortCircuit ==
    \E c \in CallIds :
        /\ calls[c].kind \in PacketKinds
        /\ Finished(calls[c])
        /\ calls[c].result = "ConsensusStateNotFound"
        /\ Len(calls[c].reads) = 2

\* C7: every verifier makes the height check before any proof check: a call
\* whose proof height exceeds the latest height of the client state is
\* rejected and asks the oracle nothing.  The connection, client-state and
\* client-consensus-state verifiers return InvalidHeight; the packet and
\* channel verifiers return InvalidHeight unless an earlier step (client
\* lookup, frozen check, consensus state lookup) has already failed.
C7_HeightBeforeProof ==
    \A c \in CallIds :
        /\ (/\ calls[c].kind \in PureKinds
            /\ Finished(calls[c])
            /\ HeightLT(calls[c].msg.client_state.latest_height,
                        calls[c].proof_height))
           => /\ calls[c].result = "InvalidHeight"
              /\ calls[c].oracle = <<>>
        /\ (/\ calls[c].kind \in StoreKinds
            /\ Finished(calls[c])
            /\ HeightTooHigh(calls[c]))
           => /\ calls[c].result \in
                     {"FrozenClient", "ConsensusStateNotFound", "InvalidHeight"}
              /\ calls[c].result = "InvalidHeight"
                     <=> (~ClientFrozen(calls[c])
                          /\ StoredConsensus(calls[c]) # Absent)
              /\ calls[c].oracle = <<>>

\* a proof the oracle would accept, at a height above the latest height of the
\* client state, is rejected with InvalidHeight
C7_Witness ==
    \E c \in CallIds :
        /\ calls[c].kind \in PureKinds
        /\ Finished(calls[c])
        /\ HeightLT(calls[c].msg.client_state.latest_height, calls[c].proof_height)
        /\ PureOracleWouldAccept(calls[c])
        /\ calls[c].result = "InvalidHeight"

\* C8: calculate_block_delay(d, m) is 0 when m is zero, and otherwise
\* ceil(d / m), the smallest n with n * m >= d: it never rounds down.
C8_CeilingOfQuotient ==
    block_delay.pc = "done"
    => block_delay.result =
           IF is_zero(block_delay.max_expected_time_per_block) THEN <<>>
           ELSE ExactCeilDiv(block_delay.delay_period_time,
                             block_delay.max_expected_time_per_block)

\* the statement an oracle query asks about holds of the proof it carries
QueryConfirmed(q) ==
    /\ q.proof.kind = (IF q.check = "membership" THEN "exist" ELSE "nonexist")
    /\ q.proof.proof_specs = q.proof_specs
    /\ q.proof.root = q.root
    /\ q.proof.merkle_path = q.merkle_path
    /\ q.proof.value = q.value

\* every check ahead of the oracle passed for the call
ChecksPassed(call) ==
    /\ call.kind \in PureKinds
         => ~HeightLT(call.msg.client_state.latest_height, call.proof_height)
    /\ call.kind \in StoreKinds
         => /\ StoredClient(call) # Absent
            /\ ~ClientFrozen(call)
            /\ StoredConsensus(call) # Absent
            /\ ~HeightTooHigh(call)
            /\ call.msg.proof # Malformed
    /\ call.kind \in PacketKinds
         => /\ StoredUpdateHeight(call) # Absent
            /\ StoredUpdateTime(call) # Absent
            /\ TimeElapsed(call)
            /\ BlocksElapsed(call)

Errors ==
    {"ClientNotFound", "FrozenClient", "ConsensusStateNotFound", "InvalidHeight",
     "ClientUpdateHeightNotFound", "ClientUpdateTimeNotFound", "DelayNotElapsed",
     "MalformedProof", "ProofVerificationFailed"}

\* C9: a verifier returns success only if every check before the oracle
\* passed and the oracle confirmed the claim; a failed read, a failed check, a
\* proof that does not decode or an oracle rejection ends the call with an
\* error, with no state read and no oracle query made twice.  For
\* verify_channel_proof, an expected ChannelEnd whose encoding differs from the
\* value proved at the path is rejected with ProofVerificationFailed.
C9_SuccessOnlyWhenConfirmed ==
    \A c \in CallIds :
        Finished(calls[c])
        => /\ calls[c].result \in Errors \cup {"Ok"}
           /\ Len(calls[c].oracle) <= 1
           /\ \A i, j \in 1..Len(calls[c].reads) :
                  calls[c].reads[i] = calls[c].reads[j] => i = j
           /\ calls[c].result = "Ok"
                <=> /\ ChecksPassed(calls[c])
                    /\ Len(calls[c].oracle) = 1
                    /\ QueryConfirmed(calls[c].oracle[1])
           /\ (calls[c].oracle # <<>> /\ ~QueryConfirmed(calls[c].oracle[1]))
                => calls[c].result = "ProofVerificationFailed"
           /\ (/\ calls[c].kind = "channel"
               /\ ChecksPassed(calls[c])
               /\ calls[c].msg.proof.value
                      # encode_channel(calls[c].msg.expected_channel))
                => calls[c].result = "ProofVerificationFailed"

\* verify_channel_proof is handed a proof of another ChannelEnd at the path,
\* under the trusted root and proof specs, and rejects it
C9_Witness ==
    \E c \in CallIds :
        /\ calls[c].kind = "channel"
        /\ Finished(calls[c])
        /\ ChecksPassed(calls[c])
        /\ calls[c].msg.proof.kind = "exist"
        /\ calls[c].msg.proof.root = StoredConsensus(calls[c])[1].root
        /\ calls[c].msg.proof.proof_specs = StoredClient(calls[c])[1].proof_specs
        /\ calls[c].msg.proof.merkle_path =
               apply_prefix(calls[c].connection.prefix,
                            ChannelEndPath(calls[c].msg.port_id,
                                           calls[c].msg.channel_id))
        /\ calls[c].msg.proof.value
               # encode_channel(calls[c].msg.expected_channel)
        /\ calls[c].result = "ProofVerificationFailed"

\* C10: no step of a verifier call changes stored state: client states,
\* consensus states, the client update time and height records and the chain's
\* block height and timestamp are left as they were by every step that starts,
\* advances, finishes or cancels a call.
C10_CallsLeaveStateAlone ==
    [][(\E c \in CallIds : calls[c].pc # "idle" \/ calls'[c].pc # "idle")
           => UNCHANGED chain]_vars

\* a call cancelled between two of its reads
C10_Witness ==
    \E c \in CallIds :
        /\ calls[c].pc = "cancelled"
        /\ Len(calls[c].reads) \in 1..5

\* one step of a call on the state as it is: the read the call waits for
\* returns what the store holds
StepAlone(call) ==
    LET key == <<call.connection.client_id, call.proof_height>>
    IN  CASE call.pc = "get_client_state" ->
                 IF call.kind = "channel"
                 THEN channel_get_client_state(
                          call, client_states[call.connection.client_id])
                 ELSE trusted_get_client_state(
                          call, client_states[call.connection.client_id])
          [] call.pc = "get_verified_consensus_state" ->
                 IF call.kind = "channel"
                 THEN channel_get_verified_consensus_state(call,
                                                           consensus_states[key])
                 ELSE trusted_get_verified_consensus_state(call,
                                                           consensus_states[key])
          [] call.pc = "get_block_timestamp" ->
                 trusted_get_block_timestamp(call, block_timestamp)
          [] call.pc = "get_block_height" ->
                 trusted_get_block_height(call, block_height)
          [] call.pc = "get_client_update_height" ->
                 trusted_get_client_update_height(call, client_update_height[key])
          [] call.pc = "get_client_update_time" ->
                 trusted_get_client_update_time(call, client_update_time[key])
          [] OTHER -> call

\* one step of each call of a set
StepEach(running) == {StepAlone(call) : call \in running}

\* the call run alone on the state as it is, from its start to its return
RunAlone(call) ==
    CHOOSE returned \in
        StepEach(StepEach(StepEach(StepEach(StepEach(StepEach(
            {NewCall(call.kind, call.connection, call.proof_height,
                     call.msg)})))))) : TRUE

\* C11: verification calls that run concurrently against the same state do
\* not interfere: under every interleaving of their reads each call returns
\* the result, after the reads and the oracle query, that it returns when it
\* runs alone on that state.
C11_NoInterference ==
    \A c \in CallIds :
        (calls[c].kind \in StoreKinds /\ Finished(calls[c]))
        => /\ calls[c].result = RunAlone(calls[c]).result
           /\ calls[c].reads = RunAlone(calls[c]).reads
           /\ calls[c].oracle = RunAlone(calls[c]).oracle

\* two calls for the same client and height are suspended at different reads
\* at once, the second after a call of the first caller was accepted
C11_Witness ==
    /\ calls[1].kind \in PacketKinds
    /\ calls[2].kind \in StoreKinds
    /\ calls[1].connection.client_id = calls[2].connection.client_id
    /\ calls[1].pc = "get_client_update_time"
    /\ calls[2].pc = "get_verified_consensus_state"
    /\ ~ClientFrozen(calls[1])
    /\ TimeElapsed(calls[1]) /\ BlocksElapsed(calls[1])
    /\ OracleWouldAccept(calls[1])

\* two calls that ran interleaved have both returned, one accepted and one
\* rejected
C11_WitnessFinished ==
    /\ Finished(calls[1]) /\ Finished(calls[2])
    /\ calls[1].kind \in PacketKinds /\ calls[2].kind \in PacketKinds
    /\ calls[1].result = "Ok"
    /\ calls[2].result = "ProofVerificationFailed"

\* the row of a packet verifier: the check, the path and the value it is to
\* ask the oracle about
PacketRow(call) ==
    LET packet == call.msg.packet
    IN  CASE call.kind = "recv" ->
                 [check |-> "membership",
                  path  |-> <<"commitments", packet.port_on_b, packet.chan_on_b,
                              packet.sequence>>,
                  value |-> commit_packet(packet)]
          [] call.kind = "ack" ->
                 [check |-> "membership",
                  path  |-> <<"acks", packet.port_on_b, packet.chan_on_b,
                              packet.sequence>>,
                  value |-> call.msg.acknowledgement]
          [] call.kind = "timeout" ->
                 [check |-> "membership",
                  path  |-> <<"nextSequenceRecv", packet.port_on_b,
                              packet.chan_on_b>>,
                  value |-> encode_u64(call.msg.next_seq_recv_on_b)]
          [] call.kind = "timeout_absence" ->
                 [check |-> "non_membership",
                  path  |-> <<"receipts", packet.port_on_b, packet.chan_on_b,
                              packet.sequence>>,
                  value |-> Absent]

\* C12: each packet verifier asks the oracle about the path, value and check
\* of its row: recv, membership of commit_packet(packet) at the commitment
\* path; ack, membership of the raw acknowledgement bytes at the ack path;
\* timeout, membership of the encoded next sequence received at the seq-recv
\* path; timeout absence, non-membership at the receipt path; and no other
\* verifier makes a non-membership check.  The port and channel of every path
\* are the packet's port_on_b and chan_on_b.
C12_RowQueried ==
    \A c \in CallIds :
        calls[c].oracle # <<>>
        => /\ calls[c].kind \in PacketKinds
                => /\ Len(calls[c].oracle) = 1
                   /\ calls[c].oracle[1].check = PacketRow(calls[c]).check
                   /\ calls[c].oracle[1].merkle_path =
                          <<calls[c].connection.prefix, PacketRow(calls[c]).path>>
                   /\ calls[c].oracle[1].value = PacketRow(calls[c]).value
           /\ calls[c].oracle[1].check = "non_membership"
                <=> calls[c].kind = "timeout_absence"

\* an acknowledgement proof of the raw acknowledgement bytes is accepted
C12_Witness ==
    \E c \in CallIds :
        /\ calls[c].kind = "ack"
        /\ Finished(calls[c])
        /\ calls[c].result = "Ok"
        /\ calls[c].msg.proof.value = calls[c].msg.acknowledgement
        /\ calls[c].oracle[1].value = calls[c].msg.acknowledgement

\* a timeout is proved by the absence of the receipt
C12_WitnessAbsence ==
    \E c \in CallIds :
        /\ calls[c].kind = "timeout_absence"
        /\ Finished(calls[c])
        /\ calls[c].result = "Ok"
        /\ calls[c].oracle[1].check = "non_membership"

\* C13: in every packet verifier, a message whose proof bytes do not convert
\* to a MerkleProof is rejected and the oracle is never asked about it; the
\* error is MalformedProof once get_trusted_client_and_consensus_state has
\* succeeded, and the error of the trust resolver otherwise.
C13_MalformedRejected ==
    \A c \in CallIds :
        (/\ calls[c].kind \in PacketKinds
         /\ Finished(calls[c])
         /\ calls[c].msg.proof = Malformed)
        => /\ calls[c].result # "Ok"
           /\ calls[c].oracle = <<>>
           /\ calls[c].result = "MalformedProof" <=> calls[c].trusted = "Ok"

\* malformed proof bytes reach the conversion, after the delay has elapsed,
\* and the call returns MalformedProof
C13_Witness ==
    \E c \in CallIds :
        /\ calls[c].kind \in PacketKinds
        /\ Finished(calls[c])
        /\ calls[c].msg.proof = Malformed
        /\ calls[c].trusted = "Ok"
        /\ calls[c].result = "MalformedProof"
        /\ calls[c].oracle = <<>>

\* C14: in the channel verifier and every packet verifier, the root given to
\* the oracle is the root of the verified consensus state stored for
\* (connection.client_id, the message's proof height) and the proof specs are
\* those of the stored client state of connection.client_id; with no client
\* state stored the call returns ClientNotFound, and with no verified
\* consensus state stored at exactly that height it returns
\* ConsensusStateNotFound (after the client lookup and the frozen check), so
\* that a consensus state of another height or client is never used.
C14_TrustedRootAndSpecs ==
    \A c \in CallIds :
        calls[c].kind \in StoreKinds
        => /\ calls[c].oracle # <<>>
                => /\ StoredClient(calls[c]) # Absent
                   /\ StoredConsensus(calls[c]) # Absent
                   /\ calls[c].oracle[1].root = StoredConsensus(calls[c])[1].root
                   /\ calls[c].oracle[1].proof_specs =
                          StoredClient(calls[c])[1].proof_specs
           /\ (Finished(calls[c]) /\ StoredClient(calls[c]) = Absent)
                => calls[c].result = "ClientNotFound" /\ calls[c].oracle = <<>>
           /\ (/\ Finished(calls[c])
               /\ StoredClient(calls[c]) # Absent
               /\ StoredConsensus(calls[c]) = Absent)
                => /\ calls[c].result =
                          (IF ClientFrozen(calls[c]) THEN "FrozenClient"
                           ELSE "ConsensusStateNotFound")
                   /\ calls[c].oracle = <<>>

\* a proof under the root of another client's consensus state at the proof
\* height, while this client holds a consensus state at another height only,
\* is rejected with ConsensusStateNotFound
C14_Witness ==
    \E c \in CallIds :
        /\ calls[c].kind \in StoreKinds
        /\ Finished(calls[c])
        /\ calls[c].connection.client_id = "07-tendermint-0"
        /\ calls[c].proof_height = Height(0, 2)
        /\ StoredConsensus(calls[c]) = Absent
        /\ consensus_states[<<"07-tendermint-0", Height(0, 1)>>] # Absent
        /\ consensus_states[<<"07-tendermint-1", Height(0, 2)>>] # Absent
        /\ calls[c].msg.proof # Malformed
        /\ calls[c].msg.proof.root =
               consensus_states[<<"07-tendermint-1", Height(0, 2)>>][1].root
        /\ calls[c].result = "ConsensusStateNotFound"

\* a client holding two consensus states is asked about the later one, and
\* the oracle gets the root of that one
C14_WitnessTwoHeights ==
    \E c \in CallIds :
        /\ calls[c].kind \in StoreKinds
        /\ Finished(calls[c])
        /\ calls[c].connection.client_id = "07-tendermint-0"
        /\ calls[c].proof_height = Height(0, 2)
        /\ consensus_states[<<"07-tendermint-0", Height(0, 1)>>] # Absent
        /\ calls[c].oracle # <<>>
        /\ calls[c].oracle[1].root = "root2"

\* get_trusted_client_and_consensus_state, run alone on the state as it is,
\* succeeds for (client_id, height, a connection with this delay period)
ResolverSucceeds(client_id, height, delay_period) ==
    RunAlone(NewCall("recv", Connection(client_id, delay_period), height,
                     [proof |-> Malformed])).trusted = "Ok"

\* the chain has moved on and the stored records are the same
ChainProgress ==
    /\ <<block_height, block_timestamp>>' # <<block_height, block_timestamp>>
    /\ block_height' >= block_height
    /\ block_timestamp' >= block_timestamp
    /\ UNCHANGED <<client_states, consensus_states, client_update_height,
                   client_update_time>>

\* C15: the delay gate is monotone in chain progress: with the stored client
\* state, consensus state and update records unchanged, if
\* get_trusted_client_and_consensus_state succeeds for (client_id, height,
\* connection) at one block time and block height, it succeeds at every later
\* block time and block height.
C15_GateMonotone ==
    [][ChainProgress
         => \A client_id \in ClientIds, height \in ProofHeights,
               delay_period \in DelayPeriods :
                ResolverSucceeds(client_id, height, delay_period)
                => ResolverSucceeds(client_id, height, delay_period)']_vars

\* the gate of a 61 s connection is open and the gate of a 100 s connection
\* still closed: the chain is between the two openings
C15_Witness ==
    /\ block_height > 12
    /\ ResolverSucceeds("07-tendermint-0", Height(0, 1), Dur(61, 0))
    /\ ~ResolverSucceeds("07-tendermint-0", Height(0, 1), Dur(100, 0))
    /\ \E c \in CallIds :
          /\ Finished(calls[c])
          /\ calls[c].connection.delay_period = Dur(61, 0)
          /\ calls[c].trusted = "Ok"

GateOpensForRevisionZero ==
    client_update_height[<<"07-tendermint-0", Height(0, 1)>>] = Some(Height(0, 10))
    => \A delay_period \in DelayPeriods :
           <>ResolverSucceeds("07-tendermint-0", Height(0, 1), delay_period)

====
